---- MODULE Spec2Model ----
(***************************************************************************)
(* State-machine model of the Kotlin binding layer of the DJI log parser   *)
(* (dji-log-parser-bindings/src/lib.rs): the DJILogWrapper object, its     *)
(* constructor from_bytes and its queries version, details,                *)
(* keychains_request, fetch_keychains, records and frames.                 *)
(*                                                                         *)
(* The wrapped library (crate dji_log_parser: DJILog, FeaturePoint, the    *)
(* record decoder and the frame normalizer) is not part of lib.rs; the     *)
(* operators prefixed DJILog_ model it from the design document.           *)
(***************************************************************************)
EXTENDS Integers, Sequences, FiniteSets, TLC

\* Option<T>: None is the empty sequence, Some(x) the one-element sequence.
None == <<>>
Some(x) == <<x>>
IsSome(o) == Len(o) = 1
Unwrap(o) == o[1]

\* Result<T, E>
Ok(v) == [ok |-> TRUE, val |-> v]
Err(e) == [ok |-> FALSE, err |-> e]

\* Iterator::map(..).collect() over a Vec
MapSeq(s, F(_)) == [i \in 1..Len(s) |-> F(s[i])]

(***************************************************************************)
(* Bounds of the model.                                                    *)
(***************************************************************************)
MaxGroups == 2    \* keychain groups in a log, a request or a response
MaxPoints == 2    \* feature points per keychain group
MaxCode == 16     \* wire codes 0..MaxCode are enumerated, plus HighCode
MaxRecords == 3   \* records in a log's record section
MaxTime == 2      \* OSD fly_time values 1..MaxTime
MaxThreads == 2   \* concurrent callers of one Log

\* A u32 code far above the named ones: 2^31 - 1, the largest integer the
\* model checker represents (a u32 goes up to 2^32 - 1).
HighCode == ((2^30 - 1) * 2) + 1
U16Mod == 65536

(***************************************************************************)
(* enum DJIError                                                           *)
(***************************************************************************)
DJIError == {"ParseError", "KeychainError", "RecordError", "FrameError"}

(***************************************************************************)
(* dji_log_parser::keychain::FeaturePoint: the fifteen feature areas in    *)
(* declaration order; the discriminant of the i-th is i.                   *)
(***************************************************************************)
FeaturePoint ==
    << "BaseFeature", "VisionFeature", "WaypointFeature", "AgricultureFeature",
       "AirLinkFeature", "AfterSalesFeature", "DJIFlyCustomFeature",
       "PlaintextFeature", "FlightHubFeature", "GimbalFeature", "RCFeature",
       "CameraFeature", "BatteryFeature", "FlySafeFeature", "SecurityFeature" >>

FeaturePointSet == {FeaturePoint[i] : i \in 1..Len(FeaturePoint)}

\* `point.feature_point as u32`: the discriminant (1..15), widened losslessly.
FeaturePointAsU32(fp) == CHOOSE i \in 1..Len(FeaturePoint) : FeaturePoint[i] = fp

\* fn u32_to_feature_point(value: u32) -> FeaturePoint
u32_to_feature_point_Shifted(value) ==
    IF value \in 0..14 THEN FeaturePoint[value + 1] ELSE "BaseFeature"

u32_to_feature_point(value) ==
    CASE value = 1 -> "BaseFeature"
      [] value = 2 -> "VisionFeature"
      [] value = 3 -> "WaypointFeature"
      [] value = 4 -> "AgricultureFeature"
      [] value = 5 -> "AirLinkFeature"
      [] value = 6 -> "AfterSalesFeature"
      [] value = 7 -> "DJIFlyCustomFeature"
      [] value = 8 -> "PlaintextFeature"
      [] value = 9 -> "FlightHubFeature"
      [] value = 10 -> "GimbalFeature"
      [] value = 11 -> "RCFeature"
      [] value = 12 -> "CameraFeature"
      [] value = 13 -> "BatteryFeature"
      [] value = 14 -> "FlySafeFeature"
      [] value = 15 -> "SecurityFeature"
      [] OTHER -> "BaseFeature"

(***************************************************************************)
(* enum ProductTypeWrapper, enum PlatformWrapper and the conversions from  *)
(* the library's ProductType and Platform.                                 *)
(***************************************************************************)
ProductTypeWrapper ==
    { "None", "Inspire1", "Phantom3Standard", "Phantom3Advanced", "Phantom3Pro",
      "OSMO", "Matrice100", "Phantom4", "LB2", "Inspire1Pro", "A3", "Matrice600",
      "Phantom34K", "MavicPro", "ZenmuseXT", "Unknown" }

PlatformWrapper ==
    { "IOS", "Android", "DJIFly", "Windows", "Mac", "Linux", "Unknown" }

\* The library's ProductType: the variants lib.rs names, its Unknown fallback,
\* and "UnlistedModel" standing for any variant lib.rs does not name.
ProductType == (ProductTypeWrapper \ {"Unknown"}) \cup {"Unknown", "UnlistedModel"}

\* The library's Platform: the variants lib.rs names and its Unknown fallback.
Platform == PlatformWrapper

\* impl From<ProductType> for ProductTypeWrapper
ProductTypeWrapper_from_DefaultNone(product_type) ==
    IF product_type \in ProductTypeWrapper \ {"Unknown"} THEN product_type ELSE "None"

ProductTypeWrapper_from(product_type) ==
    CASE product_type = "None" -> "None"
      [] product_type = "Inspire1" -> "Inspire1"
      [] product_type = "Phantom3Standard" -> "Phantom3Standard"
      [] product_type = "Phantom3Advanced" -> "Phantom3Advanced"
      [] product_type = "Phantom3Pro" -> "Phantom3Pro"
      [] product_type = "OSMO" -> "OSMO"
      [] product_type = "Matrice100" -> "Matrice100"
      [] product_type = "Phantom4" -> "Phantom4"
      [] product_type = "LB2" -> "LB2"
      [] product_type = "Inspire1Pro" -> "Inspire1Pro"
      [] product_type = "A3" -> "A3"
      [] product_type = "Matrice600" -> "Matrice600"
      [] product_type = "Phantom34K" -> "Phantom34K"
      [] product_type = "MavicPro" -> "MavicPro"
      [] product_type = "ZenmuseXT" -> "ZenmuseXT"
      [] OTHER -> "Unknown"

\* impl From<Platform> for PlatformWrapper
PlatformWrapper_from(platform) ==
    CASE platform = "IOS" -> "IOS"
      [] platform = "Android" -> "Android"
      [] platform = "DJIFly" -> "DJIFly"
      [] platform = "Windows" -> "Windows"
      [] platform = "Mac" -> "Mac"
      [] platform = "Linux" -> "Linux"
      [] OTHER -> "Unknown"

(***************************************************************************)
(* The library's Details and the wrapper's DetailsWrapper.                 *)
(***************************************************************************)
\* chrono's DateTime<Utc>::to_string(): "<date> <time> UTC"
DateTimeToString(t) == <<t \div 86400, t % 86400, "UTC">>

\* The Details of a crafted log: every field a known value.
CraftedDetails(platform, product_type) ==
    [ sub_street |-> "sub_street", street |-> "street", city |-> "city",
      area |-> "area", is_favorite |-> 1, is_new |-> 0, needs_upload |-> 2,
      record_line_count |-> 7, detail_info_checksum |-> 9,
      start_time |-> 86461, longitude |-> 11, latitude |-> 12,
      total_distance |-> 13, total_time |-> 14, max_height |-> 15,
      max_horizontal_speed |-> 16, max_vertical_speed |-> 17,
      aircraft_name |-> "aircraft_name", aircraft_sn |-> "aircraft_sn",
      camera_sn |-> "camera_sn", rc_sn |-> "rc_sn", battery_sn |-> "battery_sn",
      app_platform |-> platform, app_version |-> "app_version",
      product_type |-> product_type ]

(***************************************************************************)
(* Keychain values.  A KeychainFeaturePoint of the library carries a       *)
(* FeaturePoint; the wrapper's KeychainFeaturePointWrapper carries its     *)
(* u32 wire code.                                                          *)
(***************************************************************************)
\* The feature area of the i-th point of a crafted group: Base, Gimbal, ...
PointFeature(i) == FeaturePoint[(((i - 1) * 9) % Len(FeaturePoint)) + 1]

KeychainFeaturePoint(fp, i) ==
    [feature_point |-> fp, aes_key |-> <<"key", i>>, aes_iv |-> <<"iv", i>>]

EncodedKeychainFeaturePoint(fp, i) ==
    [feature_point |-> fp, aes_ciphertext |-> <<"ciphertext", i>>]

KeychainFeaturePointWrapper(code, i) ==
    [feature_point |-> code, aes_key |-> <<"key", i>>, aes_iv |-> <<"iv", i>>]

\* Sequences of at most n elements of S
SeqUpTo(S, n) == UNION {[1..k -> S] : k \in 0..n}

\* Crafted groups: the first n points of the crafted point list
PlainGroups == {[i \in 1..n |-> KeychainFeaturePoint(PointFeature(i), i)] : n \in 0..MaxPoints}
EncodedGroups == {[i \in 1..n |-> EncodedKeychainFeaturePoint(PointFeature(i), i)] : n \in 0..MaxPoints}
WrapperGroups ==
    {[i \in 1..n |-> KeychainFeaturePointWrapper(FeaturePointAsU32(PointFeature(i)), i)] : n \in 0..MaxPoints}

\* The wire codes enumerated: 0..MaxCode and a high one
Codes == 0..MaxCode \cup {HighCode}

(***************************************************************************)
(* The record section of a log and the library's record decoder            *)
(* (design document, Record Decoder).  A raw record has a kind (its type   *)
(* tag), enc = 0 when its payload is plain and enc = g when it is          *)
(* encrypted in frame group g, and its payload; "BadHeader" is a record    *)
(* whose header length breaks the bounds of the section.                   *)
(***************************************************************************)
OsdData(t) ==
    [ fly_time |-> t, latitude |-> 10 + t, longitude |-> 20 + t, altitude |-> 30 + t,
      height |-> 40 + t, x_speed |-> 50 + t, y_speed |-> 60 + t, z_speed |-> 70 + t,
      pitch |-> 80 + t, roll |-> 90 + t, yaw |-> 100 + t, gps_num |-> 110 + t ]
GimbalData == [pitch |-> 1, roll |-> 2, yaw |-> 3]
CameraData == [is_video |-> TRUE, is_photo |-> TRUE]
RcData == [aileron |-> 1024, elevator |-> 1025, throttle |-> 1026, rudder |-> 1027]
BatteryData(n) ==
    [ charge_level |-> 90, voltage |-> 15, current |-> 3, temperature |-> 25,
      cell_voltages |-> [i \in 1..n |-> 370 + i] ]
HomeData == [latitude |-> 51, longitude |-> 7, altitude |-> 120]

RawRecord(kind, enc, data) == [kind |-> kind, enc |-> enc, data |-> data]

\* The raw records a crafted record section is made of
RawRecords ==
    {RawRecord("OSD", g, OsdData(t)) : g \in {0, 1}, t \in 1..MaxTime}
    \cup {RawRecord("Gimbal", g, GimbalData) : g \in {0, 2}}
    \cup {RawRecord("Battery", 0, BatteryData(n)) : n \in {0, 2}}
    \cup { RawRecord("Camera", 0, CameraData), RawRecord("RC", 0, RcData),
           RawRecord("Home", 0, HomeData),
           RawRecord("Unknown", 0, [tag |-> 200]),
           RawRecord("BadHeader", 0, [tag |-> 1]) }

\* The feature tag an encrypted record of a kind declares
RecordFeature(kind) ==
    CASE kind = "Gimbal" -> "GimbalFeature"
      [] kind = "Camera" -> "CameraFeature"
      [] kind = "RC" -> "RCFeature"
      [] kind = "Battery" -> "BatteryFeature"
      [] OTHER -> "BaseFeature"

\* An encrypted record decodes when the keychain group of its frame group
\* has an entry for its feature tag; a plain record always decodes.
Decodable(raw, keychains) ==
    \/ raw.enc = 0
    \/ /\ IsSome(keychains)
       /\ raw.enc <= Len(Unwrap(keychains))
       /\ \E j \in 1..Len(Unwrap(keychains)[raw.enc]) :
              Unwrap(keychains)[raw.enc][j].feature_point = RecordFeature(raw.kind)

\* The library's Record value of a raw record
Record(raw) == [kind |-> raw.kind, data |-> raw.data]

RECURSIVE DecodeFrom(_, _)
DecodeFrom(raws, keychains) ==
    IF raws = <<>> THEN <<>>
    ELSE IF Decodable(Head(raws), keychains)
         THEN <<Record(Head(raws))>> \o DecodeFrom(Tail(raws), keychains)
         ELSE DecodeFrom(Tail(raws), keychains)

\* DJILog::records
DJILog_records(log, keychains) ==
    IF \E i \in 1..Len(log.records) : log.records[i].kind = "BadHeader"
    THEN Err("RecordBounds")
    ELSE Ok(DecodeFrom(log.records, keychains))

(***************************************************************************)
(* The library's frame normalizer (design document, Frame Normalizer): a   *)
(* fold over the decoded records with one current state per category,      *)
(* emitting a frame at each OSD record.                                    *)
(***************************************************************************)
DefaultFrame ==
    [ osd |-> [ fly_time |-> 0, latitude |-> 0, longitude |-> 0, altitude |-> 0,
                height |-> 0, x_speed |-> 0, y_speed |-> 0, z_speed |-> 0,
                pitch |-> 0, roll |-> 0, yaw |-> 0, gps_num |-> 0 ],
      gimbal |-> [pitch |-> 0, roll |-> 0, yaw |-> 0],
      camera |-> [is_video |-> FALSE, is_photo |-> FALSE],
      rc |-> [aileron |-> 0, elevator |-> 0, throttle |-> 0, rudder |-> 0],
      battery |-> [ charge_level |-> 0, voltage |-> 0, current |-> 0,
                    temperature |-> 0, cell_voltages |-> <<>> ],
      home |-> [latitude |-> 0, longitude |-> 0, altitude |-> 0] ]

UpdateFrame(frame, record) ==
    CASE record.kind = "OSD" -> [frame EXCEPT !.osd = record.data]
      [] record.kind = "Gimbal" -> [frame EXCEPT !.gimbal = record.data]
      [] record.kind = "Camera" -> [frame EXCEPT !.camera = record.data]
      [] record.kind = "RC" -> [frame EXCEPT !.rc = record.data]
      [] record.kind = "Battery" -> [frame EXCEPT !.battery = record.data]
      [] record.kind = "Home" -> [frame EXCEPT !.home = record.data]
      [] OTHER -> frame

RECURSIVE NormalizeFrom(_, _)
NormalizeFrom(records, frame) ==
    IF records = <<>> THEN <<>>
    ELSE LET next == UpdateFrame(frame, Head(records))
         IN  IF Head(records).kind = "OSD"
             THEN <<next>> \o NormalizeFrom(Tail(records), next)
             ELSE NormalizeFrom(Tail(records), next)

\* DJILog::frames
DJILog_frames(log, keychains) ==
    LET decoded == DJILog_records(log, keychains)
    IN  IF decoded.ok THEN Ok(NormalizeFrom(decoded.val, DefaultFrame))
        ELSE Err(decoded.err)

(***************************************************************************)
(* The library's container parser and keychain subsystem.  A byte buffer   *)
(* is modelled by what it holds: the state of its Prefix block and the     *)
(* content a successful parse yields.                                      *)
(***************************************************************************)
Buffer(prefix, version, details, keystorage, raws) ==
    [ prefix |-> prefix,
      body |-> [ version |-> version, details |-> details,
                 keystorage |-> keystorage, records |-> raws ] ]

KeyStorage(groups, malformed) ==
    [version |-> 2, department |-> 3, groups |-> groups, malformed |-> malformed]

\* DJILog::from_bytes
DJILog_from_bytes(bytes) ==
    IF bytes.prefix = "ok" THEN Ok(bytes.body) ELSE Err(bytes.prefix)

\* DJILog::keychains_request
DJILog_keychains_request(log) ==
    IF log.keystorage.groups = <<>> THEN Err("NoKeyStorage")
    ELSE IF log.keystorage.malformed THEN Err("MalformedKeyStorage")
    ELSE Ok([ version |-> log.keystorage.version,
              department |-> log.keystorage.department,
              keychains |-> log.keystorage.groups ])

\* DJILog::fetch_keychains: `service` is what the key service answers to a
\* valid credential, a library error or the plaintext groups.
DJILog_fetch_keychains(log, api_key, service) ==
    LET request == DJILog_keychains_request(log)
    IN  IF ~request.ok THEN Err(request.err)
        ELSE IF api_key # "valid" THEN Err("Unauthorized")
        ELSE service

(***************************************************************************)
(* impl DJILogWrapper (lib.rs).                                            *)
(***************************************************************************)
\* DJILogWrapper::from_bytes
from_bytes(bytes) ==
    LET parsed == DJILog_from_bytes(bytes)
    IN  IF parsed.ok THEN Ok([inner |-> parsed.val]) ELSE Err("ParseError")

\* DJILogWrapper::version
version(self) == self.inner.version

\* DJILogWrapper::details
details(self) ==
    LET d == self.inner.details
    IN  [ sub_street |-> d.sub_street, street |-> d.street, city |-> d.city,
          area |-> d.area, is_favorite |-> d.is_favorite, is_new |-> d.is_new,
          needs_upload |-> d.needs_upload,
          record_line_count |-> d.record_line_count,
          detail_info_checksum |-> d.detail_info_checksum,
          start_time |-> DateTimeToString(d.start_time),
          longitude |-> d.longitude, latitude |-> d.latitude,
          total_distance |-> d.total_distance, total_time |-> d.total_time,
          max_height |-> d.max_height,
          max_horizontal_speed |-> d.max_horizontal_speed,
          max_vertical_speed |-> d.max_vertical_speed,
          aircraft_name |-> d.aircraft_name, aircraft_sn |-> d.aircraft_sn,
          camera_sn |-> d.camera_sn, rc_sn |-> d.rc_sn, battery_sn |-> d.battery_sn,
          app_platform |-> PlatformWrapper_from(d.app_platform),
          app_version |-> d.app_version,
          product_type |-> ProductTypeWrapper_from(d.product_type) ]

\* keychains_request: the closure over the library's request
KeychainsRequestWrapper_Reversed(req) ==
    [ version |-> req.version, department |-> req.department,
      keychains |->
          [ g \in 1..Len(req.keychains) |->
                MapSeq(req.keychains[Len(req.keychains) + 1 - g], LAMBDA point :
                    [ feature_point |-> FeaturePointAsU32(point.feature_point),
                      aes_ciphertext |-> point.aes_ciphertext ]) ] ]

KeychainsRequestWrapper(req) ==
    [ version |-> req.version, department |-> req.department,
      keychains |->
          MapSeq(req.keychains, LAMBDA chain : MapSeq(chain, LAMBDA point :
              [ feature_point |-> FeaturePointAsU32(point.feature_point),
                aes_ciphertext |-> point.aes_ciphertext ])) ]

\* DJILogWrapper::keychains_request
keychains_request(self) ==
    LET req == DJILog_keychains_request(self.inner)
    IN  IF req.ok THEN Ok(KeychainsRequestWrapper(req.val)) ELSE Err("KeychainError")

\* DJILogWrapper::fetch_keychains
fetch_keychains(self, api_key, service) ==
    LET chains == DJILog_fetch_keychains(self.inner, api_key, service)
    IN  IF chains.ok
        THEN Ok(MapSeq(chains.val, LAMBDA chain : MapSeq(chain, LAMBDA point :
                 [ feature_point |-> FeaturePointAsU32(point.feature_point),
                   aes_key |-> point.aes_key, aes_iv |-> point.aes_iv ])))
        ELSE Err("KeychainError")

\* records: the conversion of the wrapper keychains to the library's
records_original_keychains(keychains) ==
    IF IsSome(keychains)
    THEN Some(MapSeq(Unwrap(keychains), LAMBDA chain : MapSeq(chain, LAMBDA point :
             [ feature_point |-> u32_to_feature_point(point.feature_point),
               aes_key |-> point.aes_key, aes_iv |-> point.aes_iv ])))
    ELSE None

frames_original_keychains_NoneAsEmpty(keychains) ==
    Some(MapSeq(IF IsSome(keychains) THEN Unwrap(keychains) ELSE <<>>,
                LAMBDA chain : MapSeq(chain, LAMBDA point :
                    [ feature_point |-> u32_to_feature_point(point.feature_point),
                      aes_key |-> point.aes_key, aes_iv |-> point.aes_iv ])))

\* frames: the conversion of the wrapper keychains to the library's
frames_original_keychains(keychains) ==
    IF IsSome(keychains)
    THEN Some(MapSeq(Unwrap(keychains), LAMBDA chain : MapSeq(chain, LAMBDA point :
             [ feature_point |-> u32_to_feature_point(point.feature_point),
               aes_key |-> point.aes_key, aes_iv |-> point.aes_iv ])))
    ELSE None

\* format!("{:?}", record): the variant's name and its fields
DebugFormat(record) == <<record.kind, "(", record.data, ")">>

\* records: the closure over the library's records
RecordWrappers(records) ==
    MapSeq(records, LAMBDA record :
        [record_type |-> DebugFormat(record), timestamp |-> 0, data |-> <<>>])

records_result_EmptyIsError(decoded) ==
    IF decoded.ok /\ decoded.val # <<>>
    THEN Ok(RecordWrappers(decoded.val))
    ELSE Err("RecordError")

\* records: the mapping of the library's result
records_result(decoded) ==
    IF decoded.ok THEN Ok(RecordWrappers(decoded.val)) ELSE Err("RecordError")

\* DJILogWrapper::records
records(self, keychains) ==
    records_result(DJILog_records(self.inner, records_original_keychains(keychains)))

\* `x as u16`
AsU16(x) == x % U16Mod

FrameWrapper_EmptyCells(frame) ==
    [ fly_time |-> frame.osd.fly_time, latitude |-> frame.osd.latitude,
      longitude |-> frame.osd.longitude, altitude |-> frame.osd.altitude,
      height |-> frame.osd.height, x_speed |-> frame.osd.x_speed,
      y_speed |-> frame.osd.y_speed, z_speed |-> frame.osd.z_speed,
      pitch |-> frame.osd.pitch, roll |-> frame.osd.roll, yaw |-> frame.osd.yaw,
      gps_num |-> frame.osd.gps_num, gimbal_pitch |-> frame.gimbal.pitch,
      gimbal_roll |-> frame.gimbal.roll, gimbal_yaw |-> frame.gimbal.yaw,
      is_recording |-> frame.camera.is_video,
      is_taking_photo |-> frame.camera.is_photo,
      aileron |-> AsU16(frame.rc.aileron), elevator |-> AsU16(frame.rc.elevator),
      throttle |-> AsU16(frame.rc.throttle), rudder |-> AsU16(frame.rc.rudder),
      battery_percent |-> frame.battery.charge_level,
      battery_voltage |-> frame.battery.voltage,
      battery_current |-> frame.battery.current,
      battery_temperature |-> frame.battery.temperature,
      cell_voltages |-> IF frame.battery.cell_voltages = <<>>
                        THEN frame.battery.cell_voltages
                        ELSE <<>>,
      home_latitude |-> frame.home.latitude,
      home_longitude |-> frame.home.longitude,
      home_altitude |-> frame.home.altitude ]

\* frames: the closure over one library Frame
FrameWrapper(frame) ==
    LET cell_voltages == IF frame.battery.cell_voltages # <<>>
                         THEN frame.battery.cell_voltages
                         ELSE <<>>
    IN  [ fly_time |-> frame.osd.fly_time,
          latitude |-> frame.osd.latitude,
          longitude |-> frame.osd.longitude,
          altitude |-> frame.osd.altitude,
          height |-> frame.osd.height,
          x_speed |-> frame.osd.x_speed,
          y_speed |-> frame.osd.y_speed,
          z_speed |-> frame.osd.z_speed,
          pitch |-> frame.osd.pitch,
          roll |-> frame.osd.roll,
          yaw |-> frame.osd.yaw,
          gps_num |-> frame.osd.gps_num,
          gimbal_pitch |-> frame.gimbal.pitch,
          gimbal_roll |-> frame.gimbal.roll,
          gimbal_yaw |-> frame.gimbal.yaw,
          is_recording |-> frame.camera.is_video,
          is_taking_photo |-> frame.camera.is_photo,
          aileron |-> AsU16(frame.rc.aileron),
          elevator |-> AsU16(frame.rc.elevator),
          throttle |-> AsU16(frame.rc.throttle),
          rudder |-> AsU16(frame.rc.rudder),
          battery_percent |-> frame.battery.charge_level,
          battery_voltage |-> frame.battery.voltage,
          battery_current |-> frame.battery.current,
          battery_temperature |-> frame.battery.temperature,
          cell_voltages |-> cell_voltages,
          home_latitude |-> frame.home.latitude,
          home_longitude |-> frame.home.longitude,
          home_altitude |-> frame.home.altitude ]

FrameWrappers_Reversed(frames) ==
    [i \in 1..Len(frames) |-> FrameWrapper(frames[Len(frames) + 1 - i])]

\* frames: the closure over the library's frames
FrameWrappers(frames) == MapSeq(frames, FrameWrapper)

frames_result_RecordError(normalized) ==
    IF normalized.ok THEN Ok(MapSeq(normalized.val, FrameWrapper)) ELSE Err("RecordError")

\* frames: the mapping of the library's result
frames_result(normalized) ==
    IF normalized.ok THEN Ok(FrameWrappers(normalized.val)) ELSE Err("FrameError")

\* DJILogWrapper::frames
frames(self, keychains) ==
    frames_result(DJILog_frames(self.inner, frames_original_keychains(keychains)))

(***************************************************************************)
(* The crafted inputs: byte buffers, the keychains a caller supplies, and  *)
(* the answers of the key service.                                         *)
(***************************************************************************)
DefaultDetails == CraftedDetails("DJIFly", "MavicPro")

DefaultKeyStorage ==
    KeyStorage(<<[i \in 1..MaxPoints |-> EncodedKeychainFeaturePoint(PointFeature(i), i)]>>, FALSE)

\* An encrypted gimbal record of frame group 2, an encrypted OSD record of
\* frame group 1, then a plain OSD record
DefaultRecords ==
    << RawRecord("Gimbal", 2, GimbalData), RawRecord("OSD", 1, OsdData(1)),
       RawRecord("OSD", 0, OsdData(MaxTime)) >>

DefaultBuffer == Buffer("ok", 13, DefaultDetails, DefaultKeyStorage, DefaultRecords)

\* A log whose record section has a record header that breaks its bounds
CorruptBuffer ==
    Buffer("ok", 13, DefaultDetails, DefaultKeyStorage,
           <<RawRecord("OSD", 0, OsdData(1)), RawRecord("BadHeader", 0, [tag |-> 1])>>)

HeaderBuffers ==
    { Buffer(p, 13, DefaultDetails, DefaultKeyStorage, DefaultRecords) :
          p \in {"truncated", "bad_magic", "bad_offset"} }
    \cup { Buffer("ok", v, CraftedDetails(pl, pt), DefaultKeyStorage, DefaultRecords) :
               v \in {6, 13}, pl \in Platform, pt \in ProductType }

KeyBuffers ==
    { Buffer("ok", 13, DefaultDetails, KeyStorage(groups, m), DefaultRecords) :
          groups \in SeqUpTo(EncodedGroups, MaxGroups), m \in BOOLEAN }

RecordBuffers ==
    { Buffer("ok", 13, DefaultDetails, DefaultKeyStorage, raws) :
          raws \in SeqUpTo(RawRecords, MaxRecords) }

SuppliedAll ==
    {None}
    \cup {Some(k) : k \in SeqUpTo(WrapperGroups, MaxGroups)}
    \cup {Some(<< <<KeychainFeaturePointWrapper(c, 1)>> >>) : c \in Codes}

\* Omitted, or two groups: an empty one and one with every crafted point
SuppliedFew ==
    { None,
      Some(<< <<>>,
              [i \in 1..MaxPoints |-> KeychainFeaturePointWrapper(FeaturePointAsU32(PointFeature(i)), i)] >>) }

BaseOnlyService == Ok(<< <<KeychainFeaturePoint("BaseFeature", 1)>> >>)

Services ==
    {Err("Transport"), Err("MalformedBody")}
    \cup {Ok(k) : k \in SeqUpTo(PlainGroups, MaxGroups)}
    \cup {Ok(<< <<KeychainFeaturePoint(f, 1)>> >>) : f \in FeaturePointSet}

Scenario(b, k, s) == [bytes |-> b, supplied |-> k, service |-> s]

\* The scenarios of the caller of the whole interface
Scenarios ==
    {Scenario(b, None, Err("Transport")) : b \in HeaderBuffers}
    \cup {Scenario(b, None, s) : b \in KeyBuffers, s \in {Err("Transport"), BaseOnlyService}}
    \cup {Scenario(b, None, s) : b \in {DefaultBuffer, CorruptBuffer}, s \in Services}
    \cup {Scenario(b, k, BaseOnlyService) : b \in {DefaultBuffer, CorruptBuffer}, k \in SuppliedAll}

\* The scenarios of the caller that decodes crafted record sections
DecodeScenarios ==
    {Scenario(b, k, Err("Transport")) : b \in RecordBuffers, k \in SuppliedFew}

(***************************************************************************)
(* State.                                                                  *)
(***************************************************************************)
VARIABLES
    bytes,        \* the byte buffer the caller holds
    supplied,     \* the keychains the caller supplies by hand (Option)
    service,      \* what the key service answers to a valid credential
    log,          \* Option<Arc<DJILogWrapper>>: the constructed Log
    constructed,  \* Option: the Log, its version and details right after construction
    fetched,      \* Option: the value the last successful fetch_keychains returned
    last,         \* the last call: operation, argument, what it handed the
                  \* library's decoder (Option<Option<keychains>>), result
    failed,       \* whether a call on the constructed Log has failed so far
    threads       \* the concurrent callers of the Log

vars == <<bytes, supplied, service, log, constructed, fetched, last, failed, threads>>

Threads == 1..MaxThreads

Idle == [pc |-> "idle", op |-> "none", arg |-> None, original |-> None,
         inner |-> Ok(None), res |-> Ok(None)]

Call(op, src, arg, handed, res) ==
    [op |-> op, src |-> src, arg |-> arg, handed |-> handed, res |-> res]

InitOver(scenarios) ==
    /\ \E s \in scenarios :
           /\ bytes = s.bytes
           /\ supplied = s.supplied
           /\ service = s.service
    /\ log = None
    /\ constructed = None
    /\ fetched = None
    /\ last = Call("none", "none", None, None, Ok(None))
    /\ failed = FALSE
    /\ threads = [t \in Threads |-> Idle]

Init == InitOver(Scenarios)

\* The keychains argument a caller can pass: omitted, supplied by hand, or
\* the fetched value unchanged
Argument(src) ==
    CASE src = "none" -> None
      [] src = "supplied" -> supplied
      [] src = "fetched" -> fetched

Sources == {"none", "supplied", "fetched"}

CanPass(src) ==
    /\ src = "supplied" => IsSome(supplied)
    /\ src = "fetched" => IsSome(fetched)

(***************************************************************************)
(* Operations of the sequential caller.                                    *)
(***************************************************************************)
FromBytes ==
    /\ last.op = "none"
    /\ LET r == from_bytes(bytes)
       IN  /\ log' = IF r.ok THEN Some(r.val) ELSE None
           /\ constructed' =
                  IF r.ok
                  THEN Some([self |-> r.val, version |-> version(r.val),
                             details |-> details(r.val)])
                  ELSE None
           /\ last' = Call("from_bytes", "none", None, None,
                           IF r.ok THEN Ok("Log") ELSE r)
    /\ UNCHANGED <<bytes, supplied, service, fetched, failed, threads>>

Version ==
    /\ IsSome(log)
    /\ last' = Call("version", "none", None, None, Ok(version(Unwrap(log))))
    /\ failed' = (failed \/ ~last'.res.ok)
    /\ UNCHANGED <<bytes, supplied, service, log, constructed, fetched, threads>>

Details ==
    /\ IsSome(log)
    /\ last' = Call("details", "none", None, None, Ok(details(Unwrap(log))))
    /\ failed' = (failed \/ ~last'.res.ok)
    /\ UNCHANGED <<bytes, supplied, service, log, constructed, fetched, threads>>

KeychainsRequest ==
    /\ IsSome(log)
    /\ last' = Call("keychains_request", "none", None, None, keychains_request(Unwrap(log)))
    /\ failed' = (failed \/ ~last'.res.ok)
    /\ UNCHANGED <<bytes, supplied, service, log, constructed, fetched, threads>>

FetchKeychains(api_key) ==
    /\ IsSome(log)
    /\ LET r == fetch_keychains(Unwrap(log), api_key, service)
       IN  /\ last' = Call("fetch_keychains", "none", Some(api_key), None, r)
           /\ fetched' = IF r.ok THEN Some(r.val) ELSE fetched
    /\ failed' = (failed \/ ~last'.res.ok)
    /\ UNCHANGED <<bytes, supplied, service, log, constructed, threads>>

\* records as it would be if a failed decode dropped the record section
Records_TakesOnError(src) ==
    /\ IsSome(log)
    /\ CanPass(src)
    /\ last' = Call("records", src, Argument(src),
                    Some(records_original_keychains(Argument(src))),
                    records(Unwrap(log), Argument(src)))
    /\ log' = IF last'.res.ok THEN log
              ELSE Some([inner |-> [Unwrap(log).inner EXCEPT !.records = <<>>]])
    /\ failed' = (failed \/ ~last'.res.ok)
    /\ UNCHANGED <<bytes, supplied, service, constructed, fetched, threads>>

Records(src) ==
    /\ IsSome(log)
    /\ CanPass(src)
    /\ last' = Call("records", src, Argument(src),
                    Some(records_original_keychains(Argument(src))),
                    records(Unwrap(log), Argument(src)))
    /\ failed' = (failed \/ ~last'.res.ok)
    /\ UNCHANGED <<bytes, supplied, service, log, constructed, fetched, threads>>

Frames(src) ==
    /\ IsSome(log)
    /\ CanPass(src)
    /\ last' = Call("frames", src, Argument(src),
                    Some(frames_original_keychains(Argument(src))),
                    frames(Unwrap(log), Argument(src)))
    /\ failed' = (failed \/ ~last'.res.ok)
    /\ UNCHANGED <<bytes, supplied, service, log, constructed, fetched, threads>>

Next ==
    \/ FromBytes
    \/ Version
    \/ Details
    \/ KeychainsRequest
    \/ \E api_key \in {"valid", "invalid"} : FetchKeychains(api_key)
    \/ \E src \in Sources : Records(src)
    \/ \E src \in Sources : Frames(src)

Spec == Init /\ [][Next]_vars

(***************************************************************************)
(* The caller that decodes crafted record sections: construction, then     *)
(* records and frames.                                                     *)
(***************************************************************************)
DecodeInit == InitOver(DecodeScenarios)

DecodeNext ==
    \/ FromBytes
    \/ \E src \in Sources : Records(src)
    \/ \E src \in Sources : Frames(src)

DecodeSpec == DecodeInit /\ [][DecodeNext]_vars

(***************************************************************************)
(* Concurrent callers of one constructed Log.  A call is three steps: the  *)
(* caller converts its argument, the library reads the Log through &self,  *)
(* and the caller maps the library's result.                               *)
(***************************************************************************)
ConcScenarios ==
    { Scenario(b, k, Err("Transport")) :
          b \in { DefaultBuffer, CorruptBuffer,
                  Buffer("ok", 13, DefaultDetails, KeyStorage(<<>>, FALSE), DefaultRecords) },
          k \in SuppliedFew }

ConcInit ==
    /\ \E s \in ConcScenarios :
           /\ bytes = s.bytes
           /\ supplied = s.supplied
           /\ service = s.service
    /\ log = Some(from_bytes(bytes).val)
    /\ constructed = Some([ self |-> Unwrap(log), version |-> version(Unwrap(log)),
                            details |-> details(Unwrap(log)) ])
    /\ fetched = None
    /\ last = Call("from_bytes", "none", None, None, Ok("Log"))
    /\ failed = FALSE
    /\ threads = [t \in Threads |-> Idle]

ThreadOps == {"records", "frames", "keychains_request"}

ThreadCall(t, op, src) ==
    /\ threads[t].pc = "idle"
    /\ CanPass(src)
    /\ op = "keychains_request" => src = "none"
    /\ threads' = [threads EXCEPT ![t] =
           [ pc |-> "converted", op |-> op, arg |-> Argument(src),
             original |-> CASE op = "records" -> records_original_keychains(Argument(src))
                            [] op = "frames" -> frames_original_keychains(Argument(src))
                            [] OTHER -> None,
             inner |-> Ok(None), res |-> Ok(None) ]]
    /\ UNCHANGED <<bytes, supplied, service, log, constructed, fetched, last, failed>>

\* the library's read as it would be if decoding consumed the record section
ThreadInner_Takes(t) ==
    /\ threads[t].pc = "converted"
    /\ threads' = [threads EXCEPT ![t].pc = "decoded",
           ![t].inner =
               CASE threads[t].op = "records" ->
                        DJILog_records(Unwrap(log).inner, threads[t].original)
                 [] threads[t].op = "frames" ->
                        DJILog_frames(Unwrap(log).inner, threads[t].original)
                 [] OTHER -> DJILog_keychains_request(Unwrap(log).inner)]
    /\ log' = IF threads[t].op = "keychains_request" THEN log
              ELSE Some([inner |-> [Unwrap(log).inner EXCEPT !.records = <<>>]])
    /\ UNCHANGED <<bytes, supplied, service, constructed, fetched, last, failed>>

ThreadInner(t) ==
    /\ threads[t].pc = "converted"
    /\ threads' = [threads EXCEPT ![t].pc = "decoded",
           ![t].inner =
               CASE threads[t].op = "records" ->
                        DJILog_records(Unwrap(log).inner, threads[t].original)
                 [] threads[t].op = "frames" ->
                        DJILog_frames(Unwrap(log).inner, threads[t].original)
                 [] OTHER -> DJILog_keychains_request(Unwrap(log).inner)]
    /\ UNCHANGED <<bytes, supplied, service, log, constructed, fetched, last, failed>>

ThreadReturn(t) ==
    /\ threads[t].pc = "decoded"
    /\ threads' = [threads EXCEPT ![t].pc = "done",
           ![t].res =
               CASE threads[t].op = "records" -> records_result(threads[t].inner)
                 [] threads[t].op = "frames" -> frames_result(threads[t].inner)
                 [] OTHER -> IF threads[t].inner.ok
                             THEN Ok(KeychainsRequestWrapper(threads[t].inner.val))
                             ELSE Err("KeychainError")]
    /\ UNCHANGED <<bytes, supplied, service, log, constructed, fetched, last, failed>>

\* The caller takes the result and is free to call again
ThreadFinish(t) ==
    /\ threads[t].pc = "done"
    /\ threads' = [threads EXCEPT ![t] = Idle]
    /\ UNCHANGED <<bytes, supplied, service, log, constructed, fetched, last, failed>>

ConcNext ==
    \E t \in Threads :
        \/ \E op \in ThreadOps, src \in {"none", "supplied"} : ThreadCall(t, op, src)
        \/ ThreadInner(t)
        \/ ThreadReturn(t)
        \/ ThreadFinish(t)

ConcSpec == ConcInit /\ [][ConcNext]_vars

(***************************************************************************)
(* Properties.                                                             *)
(***************************************************************************)
DecodeOps == {"records", "frames"}

\* The error kind that belongs to each fallible operation
ErrorKindOf(op) ==
    CASE op = "from_bytes" -> "ParseError"
      [] op \in {"keychains_request", "fetch_keychains"} -> "KeychainError"
      [] op = "records" -> "RecordError"
      [] op = "frames" -> "FrameError"
      [] OTHER -> "infallible"

\* C1: a failed call reports exactly its own operation's error kind
\* (from_bytes ParseError, keychains_request and fetch_keychains
\* KeychainError, records RecordError, frames FrameError), and a failed
\* from_bytes leaves no Log at all.
C1_OwnErrorKind ==
    /\ ~last.res.ok => last.res.err = ErrorKindOf(last.op)
    /\ (last.op = "from_bytes" /\ ~last.res.ok) => (log = None /\ constructed = None)
    /\ (log = None /\ last.op # "none") => (last.op = "from_bytes" /\ ~last.res.ok)

\* C1 witness: frames failed on a corrupt record section and reported FrameError
C1_Witness ==
    /\ last.op = "frames"
    /\ ~last.res.ok
    /\ last.res.err = "FrameError"
    /\ DJILog_records(Unwrap(log).inner, Unwrap(last.handed)) = Err("RecordBounds")

\* C2: once constructed, the Log never changes, whatever calls were made and
\* whether they failed: version() and details() keep returning the values
\* they had right after construction.
C2_LogUnchanged ==
    IsSome(constructed) =>
        /\ log = Some(Unwrap(constructed).self)
        /\ version(Unwrap(log)) = Unwrap(constructed).version
        /\ details(Unwrap(log)) = Unwrap(constructed).details
        /\ last.op = "version" => last.res.val = Unwrap(constructed).version
        /\ last.op = "details" => last.res.val = Unwrap(constructed).details

\* C2 witness: details() called after some call has failed, with the
\* construction-time value
C2_Witness ==
    /\ failed
    /\ last.op = "details"
    /\ last.res.val = Unwrap(constructed).details

\* What a call returns when it runs alone on the Log as constructed
Alone(op, arg) ==
    CASE op = "records" -> records(Unwrap(constructed).self, arg)
      [] op = "frames" -> frames(Unwrap(constructed).self, arg)
      [] OTHER -> keychains_request(Unwrap(constructed).self)

\* C3: under every interleaving of concurrent records, frames and
\* keychains_request calls, each finished call has the result it has when run
\* alone, and the Log is the Log as constructed.
C3_ConcurrentAsAlone ==
    /\ log = Some(Unwrap(constructed).self)
    /\ \A t \in Threads :
           threads[t].pc = "done" => threads[t].res = Alone(threads[t].op, threads[t].arg)

\* C3 witness: two callers have both finished, one of them records, and the
\* other read the Log while the first was between its steps
C3_Witness ==
    \E t, u \in Threads :
        /\ t # u
        /\ threads[t].pc = "done" /\ threads[t].op = "records" /\ threads[t].res.ok
        /\ threads[u].pc = "decoded" /\ threads[u].op = "frames"

\* C4: keychains_request returns as many groups as the log has KeyStorage
\* groups, in order, each with as many entries, in order, each entry with
\* the ciphertext and the feature-point code of the log's, and the
\* request's version and department.
C4_RequestPreservesGroups ==
    (last.op = "keychains_request" /\ last.res.ok) =>
        LET ks == Unwrap(log).inner.keystorage
            out == last.res.val
        IN  /\ out.version = ks.version
            /\ out.department = ks.department
            /\ Len(out.keychains) = Len(ks.groups)
            /\ \A g \in 1..Len(ks.groups) :
                   /\ Len(out.keychains[g]) = Len(ks.groups[g])
                   /\ \A i \in 1..Len(ks.groups[g]) :
                          /\ out.keychains[g][i].aes_ciphertext = ks.groups[g][i].aes_ciphertext
                          /\ out.keychains[g][i].feature_point \in 1..Len(FeaturePoint)
                          /\ FeaturePoint[out.keychains[g][i].feature_point]
                                 = ks.groups[g][i].feature_point

\* C4 witness: a request built from a log with several groups of different sizes
C4_Witness ==
    /\ last.op = "keychains_request"
    /\ last.res.ok
    /\ Len(last.res.val.keychains) = MaxGroups
    /\ Len(last.res.val.keychains[1]) # Len(last.res.val.keychains[MaxGroups])
    /\ Len(last.res.val.keychains[1]) > 0

\* The record section has a record header that breaks its bounds
Corrupt == \E i \in 1..Len(Unwrap(log).inner.records) :
               Unwrap(log).inner.records[i].kind = "BadHeader"

\* C5: every wire code decodes: 1..15 to the feature area of that position,
\* every other code (0 included) to BaseFeature; and no code makes records or
\* frames fail.
C5_CodeDecodingTotal ==
    (last.op \in DecodeOps /\ IsSome(last.arg)) =>
        LET in == Unwrap(last.arg)
            out == Unwrap(Unwrap(last.handed))
        IN  /\ \A g \in 1..Len(in) : \A i \in 1..Len(in[g]) :
                   out[g][i].feature_point =
                       IF in[g][i].feature_point \in 1..15
                       THEN FeaturePoint[in[g][i].feature_point]
                       ELSE "BaseFeature"
            /\ ~last.res.ok => Corrupt

\* C5 witness: frames succeeded with a code outside 1..15, decoded to BaseFeature
C5_Witness ==
    /\ last.op = "frames"
    /\ IsSome(last.arg)
    /\ last.res.ok
    /\ \E g \in 1..Len(Unwrap(last.arg)) : \E i \in 1..Len(Unwrap(last.arg)[g]) :
           /\ Unwrap(last.arg)[g][i].feature_point > 15
           /\ Unwrap(Unwrap(last.handed))[g][i].feature_point = "BaseFeature"

\* C6: details() never fails; the Platform and the ProductType of the log map
\* each to one exposed variant, a value lib.rs names to the variant of the
\* same name and any other value to Unknown.
C6_EnumDecodingTotal ==
    last.op = "details" =>
        LET d == Unwrap(log).inner.details
            out == last.res.val
        IN  /\ last.res.ok
            /\ out.app_platform \in PlatformWrapper
            /\ out.product_type \in ProductTypeWrapper
            /\ out.app_platform =
                   IF d.app_platform \in PlatformWrapper \ {"Unknown"}
                   THEN d.app_platform ELSE "Unknown"
            /\ out.product_type =
                   IF d.product_type \in ProductTypeWrapper \ {"Unknown"}
                   THEN d.product_type ELSE "Unknown"

\* C6 witness: details() of a log whose product type lib.rs does not name
C6_Witness ==
    /\ last.op = "details"
    /\ Unwrap(log).inner.details.product_type \notin ProductTypeWrapper
    /\ last.res.val.product_type = "Unknown"

\* The records the library decoded in the last decode call
Decoded == DecodeFrom(Unwrap(log).inner.records, Unwrap(last.handed))

\* The OSD records of a sequence are in non-decreasing fly_time order
TimeAscending(rs) ==
    \A i, j \in 1..Len(rs) :
        (i < j /\ rs[i].kind = "OSD" /\ rs[j].kind = "OSD")
            => rs[i].data.fly_time <= rs[j].data.fly_time

\* The frames are in non-decreasing fly_time order
FramesOrdered(out) ==
    \A i \in 1..(Len(out) - 1) : out[i].fly_time <= out[i + 1].fly_time

\* C7 as stated: for any decoded record sequence, the frames frames() returns
\* are in non-decreasing fly_time order.
C7_FramesTimeOrdered ==
    (last.op = "frames" /\ last.res.ok) => FramesOrdered(last.res.val)

\* C7 amended: when the decoded OSD records are in non-decreasing fly_time
\* order, as the log format writes them, the frames frames() returns are in
\* non-decreasing fly_time order.
C7_FramesOrderedIfRecordsAre ==
    (last.op = "frames" /\ last.res.ok /\ TimeAscending(Decoded))
        => FramesOrdered(last.res.val)

\* C7 witness: frames() returned frames at two different times and two at
\* the same time
C7_Witness ==
    /\ last.op = "frames"
    /\ last.res.ok
    /\ TimeAscending(Decoded)
    /\ Len(last.res.val) = MaxRecords
    /\ last.res.val[1].fly_time < last.res.val[2].fly_time
    /\ last.res.val[2].fly_time = last.res.val[MaxRecords].fly_time

\* The number of OSD records among the first n
OsdCount(rs, n) == Cardinality({i \in 1..n : rs[i].kind = "OSD"})

\* The position of the j-th OSD record
OsdPosition(rs, j) ==
    CHOOSE p \in 1..Len(rs) : rs[p].kind = "OSD" /\ OsdCount(rs, p) = j

\* The payload of the latest record of a kind among the first p, or the default
Latest(rs, p, kind, default) ==
    LET at == {i \in 1..p : rs[i].kind = kind}
    IN  IF at = {} THEN default
        ELSE rs[CHOOSE i \in at : \A k \in at : k <= i].data

\* The frame due at the OSD record at position p: that record's OSD values
\* and, per other category, the latest update up to p
ExpectedFrame(rs, p) ==
    LET osd == rs[p].data
        gimbal == Latest(rs, p, "Gimbal", DefaultFrame.gimbal)
        camera == Latest(rs, p, "Camera", DefaultFrame.camera)
        rc == Latest(rs, p, "RC", DefaultFrame.rc)
        battery == Latest(rs, p, "Battery", DefaultFrame.battery)
        home == Latest(rs, p, "Home", DefaultFrame.home)
    IN  [ fly_time |-> osd.fly_time, latitude |-> osd.latitude,
          longitude |-> osd.longitude, altitude |-> osd.altitude,
          height |-> osd.height, x_speed |-> osd.x_speed, y_speed |-> osd.y_speed,
          z_speed |-> osd.z_speed, pitch |-> osd.pitch, roll |-> osd.roll,
          yaw |-> osd.yaw, gps_num |-> osd.gps_num,
          gimbal_pitch |-> gimbal.pitch, gimbal_roll |-> gimbal.roll,
          gimbal_yaw |-> gimbal.yaw,
          is_recording |-> camera.is_video, is_taking_photo |-> camera.is_photo,
          aileron |-> rc.aileron, elevator |-> rc.elevator,
          throttle |-> rc.throttle, rudder |-> rc.rudder,
          battery_percent |-> battery.charge_level,
          battery_voltage |-> battery.voltage,
          battery_current |-> battery.current,
          battery_temperature |-> battery.temperature,
          cell_voltages |-> battery.cell_voltages,
          home_latitude |-> home.latitude, home_longitude |-> home.longitude,
          home_altitude |-> home.altitude ]

\* `out` is one frame per OSD record of rs, each the frame due at its record
FramesOf(rs, out) ==
    /\ Len(out) = OsdCount(rs, Len(rs))
    /\ \A j \in 1..Len(out) : out[j] = ExpectedFrame(rs, OsdPosition(rs, j))

\* C8: frames() returns one frame per decoded OSD record and none for other
\* records; each frame carries, per category, the latest update before its
\* OSD record (the default before any); and the frames due after any prefix
\* of the records are a prefix of the frames due after all of them.
C8_OneFramePerOsd ==
    (last.op = "frames" /\ last.res.ok) =>
        /\ FramesOf(Decoded, last.res.val)
        /\ \A n \in 0..Len(Decoded) :
               LET emitted == FrameWrappers(NormalizeFrom(SubSeq(Decoded, 1, n), DefaultFrame))
               IN  /\ Len(emitted) <= Len(last.res.val)
                   /\ SubSeq(last.res.val, 1, Len(emitted)) = emitted

\* C8 witness: a battery update between two OSD records shows in the second
\* frame and not in the first
C8_Witness ==
    /\ last.op = "frames"
    /\ last.res.ok
    /\ Len(last.res.val) = 2
    /\ last.res.val[1].cell_voltages = <<>>
    /\ last.res.val[1].battery_percent = 0
    /\ last.res.val[2].cell_voltages # <<>>
    /\ Decoded[Len(Decoded)].kind = "OSD"

\* The records of the section that are not encrypted, as the library's Records
PlainRecords ==
    MapSeq(SelectSeq(Unwrap(log).inner.records, LAMBDA raw : raw.enc = 0), Record)

\* C9 as stated: records and frames with keychains omitted never fail.
C9_OmittedNeverFails ==
    (last.op \in DecodeOps /\ last.arg = None) => last.res.ok

\* C9 amended: on a log whose record section has no header that breaks its
\* bounds, records and frames with keychains omitted do not fail; records
\* returns exactly the records that are not encrypted, in order, and frames
\* the frames of those records.
C9_OmittedDegrades ==
    (last.op \in DecodeOps /\ last.arg = None /\ ~Corrupt) =>
        /\ last.res.ok
        /\ last.op = "records" =>
               /\ Len(last.res.val) = Len(PlainRecords)
               /\ \A i \in 1..Len(PlainRecords) :
                      last.res.val[i].record_type = DebugFormat(PlainRecords[i])
        /\ last.op = "frames" => FramesOf(PlainRecords, last.res.val)

\* C9 witness: records with keychains omitted returned the empty list for
\* a section that holds nothing but encrypted records
C9_Witness ==
    /\ last.op = "records"
    /\ last.arg = None
    /\ last.res.ok
    /\ last.res.val = <<>>
    /\ Len(Unwrap(log).inner.records) = MaxRecords
    /\ \A i \in 1..MaxRecords : Unwrap(log).inner.records[i].enc > 0

\* C10: the fetched keychains passed unchanged to records or frames reach
\* the decoder equal to what the key service returned; records and frames
\* hand the decoder the same keychains for the same argument; and an omitted
\* argument is handed on as omitted.
C10_KeychainsRoundTrip ==
    last.op \in DecodeOps =>
        /\ last.src = "fetched" => (service.ok /\ Unwrap(last.handed) = Some(service.val))
        /\ last.arg = None => Unwrap(last.handed) = None
        /\ Unwrap(last.handed) = records_original_keychains(last.arg)
        /\ Unwrap(last.handed) = frames_original_keychains(last.arg)

\* C10 witness: frames was passed fetched keychains of several groups
C10_Witness ==
    /\ last.op = "frames"
    /\ last.src = "fetched"
    /\ Len(Unwrap(Unwrap(last.handed))) = MaxGroups
    /\ Len(Unwrap(Unwrap(last.handed))[MaxGroups]) = MaxPoints

====
